---- MODULE Spec2Model ----
(***************************************************************************)
(* Model of src/main.js: the scroll-spy (initScrollSpy and                 *)
(* updateActiveNavLink), the anchor navigator (initSmoothScroll) and the   *)
(* header shadow controller (initHeaderScrollBehavior), driven by the      *)
(* browser events they subscribe to.                                       *)
(*                                                                         *)
(* Strings are tuples of one-character strings, so that startsWith,        *)
(* substring and the template `#${id}` are computed and not assumed.       *)
(***************************************************************************)
EXTENDS Integers, Sequences, FiniteSets, TLC

\* ------------------------------------------------------------------ bounds
\* Most NavLinks of a document.
MaxLinks == 3
\* Most NavLinks of a document the anchor navigator is exercised on.
MaxNavLinks == 2
\* Most records of one intersection notification batch.
MaxBatch == 2
\* Most entries the session history grows by.
MaxHistory == 2
\* Largest vertical scroll offset.
MaxScrollY == 11
\* Most scroll notifications between two animation frames.
MaxBurst == 2
\* Most NavLinks of a document on which the three components run together.
MaxPageLinks == 1

\* ------------------------------------------------------- program constants
\* main.js:123  if (currentScrollY > 10)
ScrollThreshold == 10

\* ------------------------------------------------------------- the document
\* The ids an element of the document may carry.
Ids == {<<"a">>, <<"b">>, <<"c">>}

\* element.getAttribute(name): the attribute's value, or null when missing.
NoAttr == [has |-> FALSE, val |-> <<>>]

Attr(s) == [has |-> TRUE, val |-> s]

\* The href values a NavLink of the document may carry: none, the empty
\* string, a path, a bare '#', a fragment naming no id, a fragment naming each id.
HrefValues ==
    {NoAttr, Attr(<<>>), Attr(<<"/">>), Attr(<<"#">>), Attr(<<"#", "x">>)}
        \cup {Attr(<<"#">> \o i) : i \in Ids}

\* Vertical offsets the window may be scrolled to: the top, and the offsets
\* around the threshold.
ScrollOffsets == {0} \cup ((ScrollThreshold - 1) .. MaxScrollY)

\* header.offsetHeight, as the layout may make it.
HeaderHeights == {0, 64}

\* element.offsetTop of the element with a given id.
OffsetTop(id) ==
    CASE id = <<"a">> -> 0
      [] id = <<"b">> -> 300
      [] OTHER -> 700

\* The sequences over S of length lo..hi.
SeqsOf(S, lo, hi) == UNION {[1..n -> S] : n \in lo..hi}

VARIABLES
    doc,            \* the rendered document: hrefs of the .nav__link elements in
                    \* document order, ids of all elements, ids of the
                    \* section[id] elements, presence of a .header element
    observed,       \* ids of the sections the IntersectionObserver observes
    navLinks,       \* the NodeList initScrollSpy captured (link indices)
    clickable,      \* links that carry initSmoothScroll's click listener
    scrollListening,\* the window carries the scroll listener
    active,         \* links carrying the class nav__link--active
    lastEntered,    \* id of the section of the last entering record processed
    entered,        \* number of entering records of the last batch delivered
    headerScrolled, \* the header carries the class header--scrolled
    headerHeight,   \* header.offsetHeight (layout)
    scrollY,        \* window.scrollY
    scrollPending,  \* a scroll event is queued for dispatch
    lastScrollY,    \* closure variable lastScrollY
    ticking,        \* closure variable ticking
    rafQueue,       \* number of queued animation-frame callbacks
    notified,       \* scroll notifications handled since the last frame
    evals,          \* executions of handleScroll in the last frame
    burst,          \* scroll notifications that preceded the last frame
    click,          \* what the last click handler did: link, preventDefault, calls
    scrollTarget,   \* <<top>> of the last window.scrollTo call, <<>> before any
    history,        \* urls pushed by history.pushState, oldest first
    uncaught        \* some handler ended with an uncaught exception

vars == <<doc, observed, navLinks, clickable, scrollListening, active, lastEntered,
          entered,
          headerScrolled, headerHeight, scrollY, scrollPending, lastScrollY, ticking,
          rafQueue, notified, evals, burst, click, scrollTarget, history, uncaught>>

spyVars == <<observed, navLinks, active, lastEntered, entered>>

navVars == <<clickable, click, scrollTarget, history>>

headerVars == <<scrollListening, headerScrolled, lastScrollY, ticking, rafQueue,
                notified, evals, burst>>

None == <<>>

NoClick == [link |-> 0, prevented |-> FALSE, calls |-> <<>>]

\* document.querySelectorAll('.nav__link'): the links, in document order.
Links == 1..Len(doc.hrefs)

\* ------------------------------------------------------------ string helpers
\* href.startsWith('#')
StartsWithHash(s) == Len(s) > 0 /\ s[1] = "#"

\* href.substring(1)
Substring1(s) == SubSeq(s, 2, Len(s))

\* The template literal `#${activeSectionId}`.
Fragment(id) == <<"#">> \o id

\* Faulty variant of the comparison: any fragment href matches.
HrefMatchesAnyFragment(href, activeSectionId) == href.has /\ StartsWithHash(href.val)

\* href === `#${activeSectionId}`, for the attribute value href (null matches
\* no string).
HrefMatches(href, activeSectionId) == href.has /\ href.val = Fragment(activeSectionId)

\* Most records of one intersection notification batch, where long batches
\* are exercised.
MaxLongBatch == 3

\* ------------------------------------------------------------ the scroll-spy
\* Faulty variant of the forEach body: the class is added and never removed.
UpdateLinkNoRemove(link, activeSectionId, act) ==
    IF HrefMatches(doc.hrefs[link], activeSectionId)
    THEN act \cup {link}
    ELSE act

\* One turn of updateActiveNavLink's forEach: the link loses the class, and
\* gets it back when its href names the section.
UpdateLink(link, activeSectionId, act) ==
    IF HrefMatches(doc.hrefs[link], activeSectionId)
    THEN (act \ {link}) \cup {link}
    ELSE act \ {link}

RECURSIVE UpdateLinksFrom(_, _, _, _)
\* navLinks.forEach from link i on, in document order.
UpdateLinksFrom(i, links, activeSectionId, act) ==
    IF i \notin links
    THEN act
    ELSE UpdateLinksFrom(i + 1, links, activeSectionId,
                         UpdateLink(i, activeSectionId, act))

\* updateActiveNavLink(activeSectionId, navLinks): the links active afterwards.
UpdateActiveNavLink(activeSectionId, links, act) ==
    UpdateLinksFrom(1, links, activeSectionId, act)

\* Faulty variant of the callback's body: entry.isIntersecting is not tested.
ProcessEntryAlways(entry, links, act) ==
    UpdateActiveNavLink(entry.target, links, act)

\* The observer callback's body for one entry.
ProcessEntry(entry, links, act) ==
    IF entry.isIntersecting
    THEN UpdateActiveNavLink(entry.target, links, act)
    ELSE act

RECURSIVE ObserverCallbackFrom(_, _, _, _)
\* entries.forEach from record i on, in delivery order.
ObserverCallbackFrom(i, entries, links, act) ==
    IF i > Len(entries)
    THEN act
    ELSE ObserverCallbackFrom(i + 1, entries, links, ProcessEntry(entries[i], links, act))

RECURSIVE ObserverCallbackBackFrom(_, _, _, _)
\* Faulty variant of the forEach: the records are processed last to first.
ObserverCallbackBackFrom(i, entries, links, act) ==
    IF i < 1
    THEN act
    ELSE ObserverCallbackBackFrom(i - 1, entries, links,
                                  ProcessEntry(entries[i], links, act))

\* Faulty variant of the callback: delivery order is reversed.
ObserverCallbackReversed(entries, links, act) ==
    ObserverCallbackBackFrom(Len(entries), entries, links, act)

\* The observer callback: the links active after the batch.
ObserverCallback(entries, links, act) == ObserverCallbackFrom(1, entries, links, act)

\* The records of a batch that pass the callback's test, entry.isIntersecting.
EnteringRecords(entries) == {i \in DOMAIN entries : entries[i].isIntersecting}

\* The section of the last entering record of a batch, or the value before.
LastEntering(entries, before) ==
    LET entering == EnteringRecords(entries) IN
    IF entering = {}
    THEN before
    ELSE entries[CHOOSE i \in entering : \A j \in entering : j <= i].target

\* The records an intersection notification may carry for the observed sections.
Entries == [target : observed, isIntersecting : BOOLEAN]

\* The batches an intersection notification may deliver.
Batches == SeqsOf(Entries, 1, MaxBatch)

\* The IntersectionObserver delivers a batch of records to the callback.
Intersect(entries) ==
    /\ observed # {}
    /\ active' = ObserverCallback(entries, navLinks, active)
    /\ lastEntered' = LastEntering(entries, lastEntered)
    /\ entered' = Cardinality(EnteringRecords(entries))
    /\ UNCHANGED <<doc, observed, navLinks, headerHeight, scrollY, scrollPending,
                   uncaught>>
    /\ UNCHANGED navVars
    /\ UNCHANGED headerVars

\* ------------------------------------------------------ the anchor navigator
\* document.getElementById(targetId) finds an element.
Resolves(targetId) == targetId \in doc.ids

\* The click handler takes the branch that scrolls.
HandlesClick(href) ==
    /\ href.has
    /\ href.val # <<>>
    /\ StartsWithHash(href.val)
    /\ Resolves(Substring1(href.val))

\* header ? header.offsetHeight : 0
HeaderOffset == IF doc.header THEN headerHeight ELSE 0

\* Faulty variant of the target position: the header's height is not subtracted.
TargetPositionNoOffset(href) == OffsetTop(Substring1(href.val))

\* Faulty variant of the target position: the distance is taken from the
\* position the viewport was last sent to, not from the top of the document.
TargetPositionRelative(href) ==
    (OffsetTop(Substring1(href.val)) - HeaderOffset)
        + (IF scrollTarget = <<>> THEN 0 ELSE scrollTarget[1])

\* targetSection.offsetTop - headerHeight
TargetPosition(href) == OffsetTop(Substring1(href.val)) - HeaderOffset

\* Faulty variant of the handler: the history is updated before the scroll.
ClickCallsPushFirst(href) ==
    IF HandlesClick(href)
    THEN << <<"pushState", href.val>>,
            <<"scrollTo", TargetPosition(href), "smooth">> >>
    ELSE <<>>

\* The calls the handler makes on window and history, in program order.
ClickCalls(href) ==
    IF HandlesClick(href)
    THEN << <<"scrollTo", TargetPosition(href), "smooth">>,
            <<"pushState", href.val>> >>
    ELSE <<>>

\* Faulty variant of the handler: every fragment link's default is prevented,
\* whether or not its target exists.
ClickPreventedAlways(href) == href.has /\ StartsWithHash(href.val)

\* e.preventDefault() is called.
ClickPrevented(href) == HandlesClick(href)

\* history.pushState(null, null, href): one more entry, now the current one.
PushState(entries, url) == Append(entries, url)

\* Faulty variant of the handler: it marks the clicked link active itself.
ActiveAfterClickMarked(link) == {link}

\* The links active after the click handler ran: it touches no class list.
ActiveAfterClick(link) == active

\* A click on a NavLink runs initSmoothScroll's listener.
Click(link) ==
    LET href == doc.hrefs[link] IN
    /\ link \in clickable
    /\ HandlesClick(href) => Len(history) < MaxHistory
    /\ click' = [link |-> link, prevented |-> ClickPrevented(href),
                 calls |-> ClickCalls(href)]
    /\ scrollTarget' = IF HandlesClick(href) THEN <<TargetPosition(href)>>
                        ELSE scrollTarget
    /\ history' = IF HandlesClick(href) THEN PushState(history, href.val) ELSE history
    /\ active' = ActiveAfterClick(link)
    /\ UNCHANGED <<doc, clickable, headerHeight, scrollY, scrollPending, uncaught>>
    /\ UNCHANGED <<observed, navLinks, lastEntered, entered>>
    /\ UNCHANGED headerVars

\* The layout changes the header's rendered height.
Relayout(h) ==
    /\ doc.header
    /\ h # headerHeight
    /\ headerHeight' = h
    /\ UNCHANGED <<doc, scrollY, scrollPending, uncaught>>
    /\ UNCHANGED spyVars
    /\ UNCHANGED navVars
    /\ UNCHANGED headerVars

\* ------------------------------------------------ the header shadow controller
\* Faulty variant of the test: currentScrollY >= 10.
PastThresholdInclusive(y) == y >= ScrollThreshold

\* handleScroll's test: currentScrollY > 10.
PastThreshold(y) == y > ScrollThreshold

\* handleScroll dereferences header: a TypeError when querySelector found none.
HandleScrollThrows == ~doc.header

\* The header's class after handleScroll ran at offset y.
HandleScrollClass(y, before) == IF HandleScrollThrows THEN before ELSE PastThreshold(y)

\* lastScrollY after handleScroll ran at offset y.
HandleScrollLast(y, before) == IF HandleScrollThrows THEN before ELSE y

\* Faulty variant of the callback: ticking is not reset.
TickingNeverReset(before) == before

\* The animation-frame callback's last statement, ticking = false, is reached
\* only when handleScroll returned.
TickingAfterCallback(before) == IF HandleScrollThrows THEN before ELSE FALSE

\* Faulty variant of initialization: the initial handleScroll() is left out.
InitialClassSkipped(before) == before

\* initHeaderScrollBehavior's last statement, handleScroll(): the header's class
\* after initialization.
InitialClass(before) == HandleScrollClass(scrollY, before)

\* Faulty variant of handleScroll in the frame callback: the remembered
\* lastScrollY is tested in place of the current offset.
CurrentScrollYStale == lastScrollY

\* const currentScrollY = window.scrollY, read when the frame callback runs.
CurrentScrollY == scrollY

\* Faulty variant of the scroll listener: every notification schedules a
\* callback.
ScrollListenerUnthrottled ==
    /\ rafQueue' = rafQueue + 1
    /\ ticking' = TRUE

\* The scroll listener: schedule one frame callback unless one is scheduled.
ScrollListener ==
    IF ~ticking
    THEN /\ rafQueue' = rafQueue + 1
         /\ ticking' = TRUE
    ELSE UNCHANGED <<rafQueue, ticking>>

\* The window is scrolled to offset y; its scroll event is queued.
ScrollMove(y) ==
    /\ y # scrollY
    /\ scrollY' = y
    /\ scrollPending' = TRUE
    /\ UNCHANGED <<doc, headerHeight, uncaught>>
    /\ UNCHANGED spyVars
    /\ UNCHANGED navVars
    /\ UNCHANGED headerVars

\* The queued scroll event is dispatched to the window's listener.
ScrollNotify ==
    /\ scrollPending
    /\ scrollListening
    /\ notified < MaxBurst
    /\ scrollPending' = FALSE
    /\ ScrollListener
    /\ notified' = notified + 1
    /\ UNCHANGED <<doc, headerHeight, scrollY, uncaught, scrollListening,
                   headerScrolled, lastScrollY, evals, burst>>
    /\ UNCHANGED spyVars
    /\ UNCHANGED navVars

\* An animation frame: the queued callbacks run, each handleScroll() and then
\* ticking = false.
Frame ==
    /\ rafQueue > 0 \/ notified > 0
    /\ headerScrolled' = IF rafQueue > 0
                          THEN HandleScrollClass(CurrentScrollY, headerScrolled)
                          ELSE headerScrolled
    /\ lastScrollY' = IF rafQueue > 0 THEN HandleScrollLast(CurrentScrollY, lastScrollY)
                       ELSE lastScrollY
    /\ ticking' = IF rafQueue > 0 THEN TickingAfterCallback(ticking) ELSE ticking
    /\ uncaught' = (uncaught \/ (rafQueue > 0 /\ HandleScrollThrows))
    /\ evals' = rafQueue
    /\ burst' = notified
    /\ rafQueue' = 0
    /\ notified' = 0
    /\ UNCHANGED <<doc, headerHeight, scrollY, scrollPending, scrollListening>>
    /\ UNCHANGED spyVars
    /\ UNCHANGED navVars

\* ------------------------------------------------------------ initialization
\* Variant of initScrollSpy that returns before observing when the document has
\* no NavLink.
ObservedSectionsIfLinks == IF Links = {} THEN {} ELSE doc.sections

\* sections.forEach(section => observer.observe(section)): the sections the
\* observer watches after initScrollSpy, whatever the number of NavLinks.
ObservedSections == doc.sections

\* init(): initScrollSpy(), initSmoothScroll(), initHeaderScrollBehavior(), run
\* once, at DOMContentLoaded or at once when the document is already loaded.
\* The listeners are registered before the first handleScroll() can throw.
DOMContentLoaded ==
    /\ ~scrollListening
    /\ navLinks' = Links
    /\ observed' = ObservedSections
    /\ clickable' = Links
    /\ scrollListening' = TRUE
    /\ ticking' = FALSE
    /\ headerScrolled' = InitialClass(headerScrolled)
    /\ lastScrollY' = HandleScrollLast(scrollY, scrollY)
    /\ uncaught' = (uncaught \/ HandleScrollThrows)
    /\ UNCHANGED <<doc, active, lastEntered, entered, headerHeight, scrollY,
                   scrollPending, rafQueue, notified, evals, burst, click, scrollTarget, history>>

\* ----------------------------------------------------------- specifications
\* The documents of at most n links.
Documents(n) ==
    {d \in [hrefs : SeqsOf(HrefValues, 0, n), ids : SUBSET Ids,
            sections : SUBSET Ids, header : BOOLEAN] : d.sections \subseteq d.ids}

\* The state when the script starts, for a document of D scrolled to an offset
\* of Y: the markup marks at most one link active, no listener is registered.
InitOf(D, Y) ==
    /\ doc \in D
    /\ scrollY \in Y
    /\ active \in {a \in SUBSET Links : Cardinality(a) <= 1}
    /\ headerScrolled \in (IF doc.header THEN BOOLEAN ELSE {FALSE})
    /\ headerHeight \in (IF doc.header THEN HeaderHeights ELSE {0})
    /\ observed = {}
    /\ navLinks = {}
    /\ clickable = {}
    /\ scrollListening = FALSE
    /\ lastEntered = None
    /\ entered = 0
    /\ scrollPending = FALSE
    /\ lastScrollY = 0
    /\ ticking = FALSE
    /\ rafQueue = 0
    /\ notified = 0
    /\ evals = 0
    /\ burst = 0
    /\ click = NoClick
    /\ scrollTarget = <<>>
    /\ history = <<>>
    /\ uncaught = FALSE

Init == InitOf(Documents(MaxLinks), ScrollOffsets)

Next ==
    \/ DOMContentLoaded
    \/ \E entries \in Batches : Intersect(entries)
    \/ \E link \in Links : Click(link)
    \/ \E h \in HeaderHeights : Relayout(h)
    \/ \E y \in ScrollOffsets : ScrollMove(y)
    \/ ScrollNotify
    \/ Frame

Spec == Init /\ [][Next]_vars

\* The sections of a document the scroll-spy is exercised on: none, a, a and
\* b, or all three (the ids are interchangeable).
SpySections == {{}, {<<"a">>}, {<<"a">>, <<"b">>}, Ids}

\* The href values the scroll-spy is exercised on: none, and a fragment naming
\* each id. The other strings are left out: to the scroll-spy each is one more
\* string equal to no section's fragment, as '#c' is in a document whose
\* sections are a and b.
SpyHrefValues == {NoAttr} \cup {Attr(<<"#">> \o i) : i \in Ids}

\* The scroll-spy alone: documents with a header and no element with an id
\* but the sections, at the top of the page.
SpyDocuments ==
    {d \in [hrefs : SeqsOf(SpyHrefValues, 0, MaxLinks),
            ids : SpySections, sections : SpySections, header : {TRUE}] :
        d.ids = d.sections}

InitSpy == InitOf(SpyDocuments, {0}) /\ ~headerScrolled /\ headerHeight = 0

NextSpy ==
    \/ DOMContentLoaded
    \/ \E entries \in Batches : Intersect(entries)

SpecSpy == InitSpy /\ [][NextSpy]_vars

\* The batches of up to MaxLongBatch records an intersection notification may
\* deliver.
LongBatches == SeqsOf(Entries, 1, MaxLongBatch)

\* The scroll-spy under long batches: documents with a header, the sections a
\* and b in this document order, and at most MaxNavLinks links.
BatchDocuments ==
    [hrefs : SeqsOf(SpyHrefValues, 0, MaxNavLinks), ids : {{<<"a">>, <<"b">>}},
     sections : {{<<"a">>, <<"b">>}}, header : {TRUE}]

InitBatch == InitOf(BatchDocuments, {0}) /\ ~headerScrolled /\ headerHeight = 0

NextBatch ==
    \/ DOMContentLoaded
    \/ \E entries \in LongBatches : Intersect(entries)

SpecBatch == InitBatch /\ [][NextBatch]_vars

\* The anchor navigator alone: documents without sections to observe.
NavDocuments ==
    {d \in Documents(MaxNavLinks) : d.sections = {}}

InitNav == InitOf(NavDocuments, {0}) /\ ~headerScrolled /\ active = {}

NextNav ==
    \/ DOMContentLoaded
    \/ \E link \in Links : Click(link)
    \/ \E h \in HeaderHeights : Relayout(h)

SpecNav == InitNav /\ [][NextNav]_vars

\* The header shadow controller alone: documents without links and sections.
HeaderDocuments ==
    {d \in Documents(0) : d.ids = {}}

InitHeader == InitOf(HeaderDocuments, ScrollOffsets)

NextHeader ==
    \/ DOMContentLoaded
    \/ \E y \in ScrollOffsets : ScrollMove(y)
    \/ ScrollNotify
    \/ Frame

SpecHeader == InitHeader /\ [][NextHeader]_vars

\* The three components together: documents with the section a, at most
\* MaxPageLinks links to '#a' or '#x', with and without header, loaded at the
\* top and scrolled between the top and the largest offset.
PageDocuments ==
    [hrefs : SeqsOf({Attr(<<"#", "a">>), Attr(<<"#", "x">>)}, 0, MaxPageLinks),
     ids : {{<<"a">>}}, sections : {{<<"a">>}}, header : BOOLEAN]

InitPage == InitOf(PageDocuments, {0}) /\ ~headerScrolled /\ headerHeight = 0

NextPage ==
    \/ DOMContentLoaded
    \/ \E entries \in Batches : Intersect(entries)
    \/ \E link \in Links : Click(link)
    \/ \E y \in {0, MaxScrollY} : ScrollMove(y)
    \/ ScrollNotify
    \/ Frame

SpecPage == InitPage /\ [][NextPage]_vars

\* The header shadow controller under the browser's scheduling: the document
\* finishes loading, a queued scroll event is dispatched, and animation frames
\* keep coming.
SpecHeaderFair ==
    /\ SpecHeader
    /\ WF_vars(DOMContentLoaded)
    /\ WF_vars(ScrollNotify)
    /\ WF_vars(Frame)

\* ------------------------------------------------------------------ claims
\* The links whose href is '#' followed by the id s.
LinksTo(s) == {l \in Links : doc.hrefs[l] = Attr(<<"#">> \o s)}

\* A batch of one entering record for section s.
EntryOf(s) == <<[target |-> s, isIntersecting |-> TRUE]>>

\* C1: after any sequence of intersection notifications at most one NavLink
\* carries the class nav__link--active, also when several links share an href.
C1_AtMostOneActive == Cardinality(active) <= 1

\* C2: processing an entering notification for a section B leaves every link
\* with href '#B' active and every link that was active before and does not
\* reference B inactive, from any prior active state.
C2_EntryActivatesItsLink ==
    [][\A s \in observed :
          (lastEntered' = s /\ Intersect(EntryOf(s))) =>
              /\ LinksTo(s) \subseteq active'
              /\ (active \ LinksTo(s)) \cap active' = {}]_vars

\* A document with sections a, b, c and a link referencing each, after a
\* notification that section b entered: b's link is active, the others are not.
C2_Witness ==
    /\ doc.sections = Ids
    /\ \A s \in Ids : LinksTo(s) # {}
    /\ lastEntered = <<"b">>
    /\ active = LinksTo(<<"b">>)
    /\ active # {}

\* The link's href is '#<id>' for the id of no section of the document.
Unmatched(l) == \A s \in doc.sections : l \notin LinksTo(s)

\* C3: a link whose href names no observed section, once inactive, is inactive
\* in every later state: no intersection notification activates it.
C3_UnmatchedNeverActivated ==
    [][\A l \in Links : (Unmatched(l) /\ l \notin active) => l \notin active']_vars

\* A fragment link that names no section is inactive after a section entered
\* and activated its own link.
C3_Witness ==
    /\ lastEntered # None
    /\ active # {}
    /\ \E l \in Links : /\ Unmatched(l)
                        /\ doc.hrefs[l] = Attr(<<"#", "c">>)
                        /\ l \notin active

\* The link's href is '#t' for the id t of an element of the document.
NamesElement(l) == \E t \in doc.ids : doc.hrefs[l] = Attr(<<"#">> \o t)

\* The id an href '#t' names.
NamedId(l) == CHOOSE t \in doc.ids : doc.hrefs[l] = Attr(<<"#">> \o t)

\* The indices of the calls of function fn among the calls of a click.
CallsOf(calls, fn) == {i \in DOMAIN calls : calls[i][1] = fn}

\* C4: a click on a link whose href names an existing element calls
\* preventDefault and makes exactly one scrollTo call, smooth, whose top is the
\* target's offsetTop minus the header's current offsetHeight (0 without header).
C4_ClickScrollsToTarget ==
    [][\A l \in Links :
          (Click(l) /\ NamesElement(l)) =>
              /\ click'.link = l
              /\ click'.prevented
              /\ Cardinality(CallsOf(click'.calls, "scrollTo")) = 1
              /\ \A i \in CallsOf(click'.calls, "scrollTo") :
                    /\ click'.calls[i][2] =
                          OffsetTop(NamedId(l)) - (IF doc.header THEN headerHeight ELSE 0)
                    /\ click'.calls[i][3] = "smooth"]_vars

\* A click on a link to section b under a header 64 high scrolled to 300 - 64.
C4_Witness ==
    /\ click.link \in Links
    /\ doc.hrefs[click.link] = Attr(<<"#", "b">>)
    /\ doc.header
    /\ headerHeight = 64
    /\ click.prevented
    /\ scrollTarget = <<236>>

\* The link's href is missing, does not start with '#', or names no element.
NamesNothing(l) ==
    \/ ~doc.hrefs[l].has
    \/ doc.hrefs[l].val = <<>>
    \/ doc.hrefs[l].val[1] # "#"
    \/ \A t \in doc.ids : doc.hrefs[l].val # <<"#">> \o t

\* C5: a click on a link whose href is missing, does not start with '#' or
\* names no element makes no call, does not call preventDefault, raises no
\* error and leaves the history, the scroll target and every class unchanged.
C5_UnresolvedClickIsNoOp ==
    [][\A l \in Links :
          (Click(l) /\ NamesNothing(l)) =>
              /\ click'.calls = <<>>
              /\ ~click'.prevented
              /\ history' = history
              /\ scrollTarget' = scrollTarget
              /\ uncaught' = uncaught
              /\ active' = active
              /\ headerScrolled' = headerScrolled]_vars

\* After a click that scrolled, a click on a link to '#x' did nothing.
C5_Witness ==
    /\ click.link \in Links
    /\ doc.hrefs[click.link] = Attr(<<"#", "x">>)
    /\ click.calls = <<>>
    /\ ~click.prevented
    /\ history # <<>>
    /\ ~uncaught

\* C6: whenever handleScroll re-evaluates at offset y, the header carries
\* header--scrolled afterwards iff y > 10, whatever it carried before.
C6_ClassIffPastThreshold ==
    [][((DOMContentLoaded \/ (Frame /\ rafQueue > 0)) /\ doc.header) =>
          (headerScrolled' <=> scrollY > 10)]_vars

\* A frame re-evaluated at offset exactly 10 and left the class absent.
C6_Witness ==
    /\ doc.header
    /\ evals = 1
    /\ burst >= 1
    /\ lastScrollY = 10
    /\ scrollY = 10
    /\ ~scrollPending
    /\ ~headerScrolled

\* C7: two or more scroll notifications between two consecutive animation
\* frames cause exactly one execution of handleScroll in the next frame.
C7_BurstCoalesced == burst >= 2 => evals = 1

\* C8: after initialization the header carries header--scrolled iff the
\* current scroll offset exceeds 10, in every state, the states between a
\* scroll notification and the next animation frame included (stated here for
\* the states whose scroll has been notified).
C8_ClassIsFunctionOfOffset ==
    (scrollListening /\ doc.header /\ ~scrollPending) =>
        (headerScrolled <=> scrollY > 10)

\* C8, amended: after initialization the header carries header--scrolled iff
\* the current scroll offset exceeds 10 in every state where no scroll event
\* awaits dispatch and no animation-frame callback is pending.
C8_ClassIsFunctionOfOffsetWhenIdle ==
    (scrollListening /\ doc.header /\ ~scrollPending /\ rafQueue = 0) =>
        (headerScrolled <=> scrollY > 10)

\* A frame has re-evaluated after a scroll past the threshold and nothing is
\* pending.
C8_Witness ==
    /\ scrollListening
    /\ doc.header
    /\ ~scrollPending
    /\ rafQueue = 0
    /\ evals = 1
    /\ scrollY = 11
    /\ headerScrolled

\* C9: initialization evaluates the header state at once: right after it, and
\* before any scroll notification was handled, the header carries
\* header--scrolled iff the page was loaded scrolled past the threshold.
C9_InitialEvaluation ==
    [][(DOMContentLoaded /\ doc.header) =>
          /\ headerScrolled' <=> scrollY' > 10
          /\ notified' = 0
          /\ burst' = 0
          /\ evals' = 0]_vars

\* The page was loaded scrolled to 11: the header is marked and no scroll
\* notification has been handled.
C9_Witness ==
    /\ scrollListening
    /\ doc.header
    /\ scrollY = 11
    /\ lastScrollY = 11
    /\ headerScrolled
    /\ notified = 0
    /\ burst = 0
    /\ evals = 0
    /\ rafQueue = 0

\* C10: when the document has no .header element, initialization and every
\* later scroll notification and frame callback end without raising an error.
C10_NoUncaughtError == ~uncaught

\* The batches whose records are all non-entering.
LeavingBatches == SeqsOf([target : observed, isIntersecting : {FALSE}], 1, MaxBatch)

\* C11: a notification whose records are all for sections leaving the band
\* (isIntersecting = false) changes no link's active state and leaves the last
\* entered section as it was: the link active before stays the active one.
\* (Only a step that ends with no entering record counted can be the delivery
\* of such a batch.)
C11_LeavingChangesNothing ==
    [][entered' = 0 =>
          \A entries \in LeavingBatches :
              Intersect(entries) => (active' = active /\ lastEntered' = lastEntered)]_vars

\* A section entered and activated its link, then a batch of leaving records
\* was delivered: the link is still active.
C11_Witness ==
    /\ lastEntered # None
    /\ entered = 0
    /\ active # {}
    /\ active = LinksTo(lastEntered)

\* C15 as claimed: with zero sections or zero NavLinks the observer observes
\* nothing.
C15_NoWatchesWithoutSectionsOrLinks ==
    (scrollListening /\ (doc.sections = {} \/ Links = {})) => observed = {}

\* C15, amended: after initialization the observer observes exactly the
\* sections of the document, also when there is no NavLink; with zero sections
\* it observes nothing, and with zero sections or zero NavLinks no
\* notification changes a class, the scroll target, the history or the error
\* state.
C15_WatchesFollowSections ==
    [][/\ scrollListening' => observed' = doc'.sections
       /\ (scrollListening /\ (doc.sections = {} \/ Links = {})) =>
              UNCHANGED <<active, headerScrolled, click, scrollTarget, history,
                          uncaught>>]_vars

\* A document with sections and no NavLink: the sections are observed, an
\* entering record was processed and no link is active.
C15_Witness ==
    /\ scrollListening
    /\ Links = {}
    /\ observed = Ids
    /\ lastEntered # None
    /\ entered >= 1
    /\ active = {}

\* C17: after an entering notification for section S the active links are
\* exactly the links whose href is '#' + S.id; when no link references S,
\* every link is inactive.
C17_ActiveIsExactlyLinksToSection ==
    [][\A s \in observed :
          (lastEntered' = s /\ Intersect(EntryOf(s))) => active' = LinksTo(s)]_vars

\* A section without referencing link entered while the document has links:
\* no link is active.
C17_Witness ==
    /\ lastEntered # None
    /\ entered = 1
    /\ LinksTo(lastEntered) = {}
    /\ \E s \in doc.sections : LinksTo(s) # {}
    /\ active = {}

\* C12: when a batch carries entering records for two or more sections, the
\* records are processed in delivery order: after the batch the active links
\* are the links referencing the section of the last entering record, whatever
\* the document order of the sections and whatever non-entering records follow.
C12_LastEnteringRecordWins == entered >= 2 => active = LinksTo(lastEntered)

\* A batch with two entering records ended with section a, the first section
\* of the document, as the last entering one: a's link is the active one and
\* b's link is not.
C12_Witness ==
    /\ entered >= 2
    /\ lastEntered = <<"a">>
    /\ LinksTo(<<"a">>) # {}
    /\ LinksTo(<<"b">>) # {}
    /\ active = LinksTo(<<"a">>)

\* The url of the current history entry: the visible URL fragment.
UrlFragment(entries) == IF entries = <<>> THEN <<>> ELSE entries[Len(entries)]

\* Link l was the last link clicked, its click scrolled, and the layout is as
\* it was then: the viewport's target is already l's.
AlreadyAt(l) ==
    /\ NamesElement(l)
    /\ click.link = l
    /\ click.prevented
    /\ scrollTarget = <<OffsetTop(NamedId(l)) - (IF doc.header THEN headerHeight ELSE 0)>>

\* C13 as claimed: activating the same link again, layout unchanged, leaves the
\* scroll target, the URL fragment, the history and the classes as they were
\* after the first activation.
C13_RepeatedClickIdempotent ==
    [][\A l \in Links :
          (AlreadyAt(l) /\ Click(l)) =>
              /\ click' = click
              /\ scrollTarget' = scrollTarget
              /\ UrlFragment(history') = UrlFragment(history)
              /\ history' = history
              /\ active' = active
              /\ headerScrolled' = headerScrolled]_vars

\* C13, amended: activating the same link again, layout unchanged, makes the
\* same calls and leaves the scroll target, the URL fragment and the classes as
\* they were, while the history gains one more entry for the same url.
C13_RepeatedClickIdempotentButHistory ==
    [][\A l \in Links :
          (AlreadyAt(l) /\ Click(l)) =>
              /\ click' = click
              /\ scrollTarget' = scrollTarget
              /\ UrlFragment(history') = UrlFragment(history)
              /\ Len(history') = Len(history) + 1
              /\ active' = active
              /\ headerScrolled' = headerScrolled]_vars

\* The same link was clicked twice in a row: the history holds its url twice
\* and the scroll target is the link's.
C13_Witness ==
    /\ click.link \in Links
    /\ AlreadyAt(click.link)
    /\ Len(history) >= 2
    /\ history[Len(history)] = history[Len(history) - 1]
    /\ history[Len(history)] = doc.hrefs[click.link].val

\* C14: a click that resolves to a target makes one pushState call, with the
\* link's href, after its scrollTo call and as its last call, so that the
\* current history entry is the href; a click that resolves to no target makes
\* no pushState call and leaves the history as it was.
C14_HistoryUpdatedAfterScroll ==
    [][\A l \in Links :
          /\ (Click(l) /\ NamesElement(l)) =>
                /\ Cardinality(CallsOf(click'.calls, "pushState")) = 1
                /\ Cardinality(CallsOf(click'.calls, "scrollTo")) = 1
                /\ \A i \in CallsOf(click'.calls, "pushState") :
                      /\ click'.calls[i][2] = doc.hrefs[l].val
                      /\ i = Len(click'.calls)
                      /\ \A j \in CallsOf(click'.calls, "scrollTo") : j < i
                /\ Len(history') = Len(history) + 1
                /\ UrlFragment(history') = doc.hrefs[l].val
          /\ (Click(l) /\ NamesNothing(l)) =>
                /\ CallsOf(click'.calls, "pushState") = {}
                /\ history' = history]_vars

\* A click on a link to section b scrolled and then pushed '#b'; a click
\* before it had pushed another url.
C14_Witness ==
    /\ click.link \in Links
    /\ Len(click.calls) = 2
    /\ click.calls[1][1] = "scrollTo"
    /\ click.calls[2] = <<"pushState", <<"#", "b">> >>
    /\ Len(history) = 2
    /\ history[1] # history[2]
    /\ UrlFragment(history) = <<"#", "b">>

\* C18: under fairness of animation frames, once scrolling has stopped at an
\* offset y the header's class eventually is, and stays, (y > 10): the frame
\* callback reads the offset of frame time and every notification after a
\* callback schedules a new one.
C18_EventuallyReflectsLastOffset ==
    \A y \in ScrollOffsets :
        <>[](scrollY = y) => <>[](doc.header => (headerScrolled <=> y > 10))

\* A burst of two notifications was coalesced into one callback, which read
\* the offset of frame time, 11, and marked the header; nothing is pending.
C18_Witness ==
    /\ doc.header
    /\ burst = 2
    /\ evals = 1
    /\ notified = 0
    /\ ~ticking
    /\ ~scrollPending
    /\ scrollY = 11
    /\ lastScrollY = 11
    /\ headerScrolled

\* C19: while the document has a header, at most one animation-frame callback
\* is pending in every state, and ticking is true exactly when one is pending.
C19_TickingIffCallbackPending ==
    doc.header => (rafQueue <= 1 /\ (ticking <=> rafQueue = 1))

\* Two notifications arrived since the last frame: one callback is pending and
\* ticking is set.
C19_Witness ==
    /\ doc.header
    /\ notified = 2
    /\ rafQueue = 1
    /\ ticking

\* C16: the three components share no mutable state. Intersection handling
\* changes only the links' active classes: not the header's class and
\* throttle state, the history or the scroll target. The header's scroll
\* listener and frame callback change no link's class, scroll target or
\* history. The click handler changes the scroll target and the history: no
\* link's class and nothing of the header. (Each conjunct reads: the step
\* leaves the other components' state unchanged, or it is no step of the
\* component.)
C16_ComponentsShareNoState ==
    [][/\ \/ UNCHANGED <<headerScrolled, lastScrollY, ticking, rafQueue, click,
                          scrollTarget, history, scrollY>>
          \/ ~\E entries \in Batches : Intersect(entries)
       /\ \/ UNCHANGED <<active, click, scrollTarget, history>>
          \/ ~(ScrollNotify \/ Frame)
       /\ \/ UNCHANGED <<active, headerScrolled, lastScrollY, ticking, rafQueue,
                          scrollY>>
          \/ ~\E l \in Links : Click(l)]_vars

\* All three components have acted on one page: a section entered and its
\* link is active, a click scrolled and pushed its url, a frame callback
\* marked the header.
C16_Witness ==
    /\ doc.header
    /\ lastEntered # None
    /\ active # {}
    /\ click.prevented
    /\ history # <<>>
    /\ evals = 1
    /\ headerScrolled
====
